---- MODULE Spec2Model ----
(***************************************************************************)
(* Model of the aligned_vec crate (src/src/lib.rs): the three constructors *)
(* aligned_vec, init_aligned_vec and page_aligned_vec, executed step by    *)
(* step against an allocator, a page-size query and mlock.                 *)
(*                                                                         *)
(* Addresses, sizes and the page size are scaled down; an element type T   *)
(* is represented by its size in bytes (1 for u8, 2 for u16, ...), and its *)
(* alignment equals its size, as for the primitive integer types.          *)
(***************************************************************************)
EXTENDS Integers, Sequences, FiniteSets

\* ---- bounds of the model ----
MaxCount == 4        \* largest `size` argument (elements)
MaxCapacity == 5     \* largest `capacity` argument (elements)
AddrTop == 8         \* largest address the allocator hands out

\* ---- input domains ----
ElemSizes == {1, 2}          \* std::mem::size_of::<T>()
Aligns == {1, 2, 4}          \* power-of-two `align` arguments

\* The alignments a caller may pass for an element type of size t: powers
\* of two that are valid alignments of the type.
ValidAligns(t) == {a \in Aligns : a % t = 0}
PageSizes == {2, 4}          \* values page_size::get() may return
Values == {"v7", "v42"}      \* element values (two distinct values of T)
None == "None"               \* Option::None
NULL == 0                    \* the null pointer returned by a failed alloc
NoVec == [ptr |-> NULL, len |-> 0, cap |-> 0]

VARIABLES
    pc,          \* position of the running constructor
    caller,      \* the public function that was called
    T,           \* size_of::<T>()
    size,        \* argument `size` (element count)
    capacity,    \* argument `capacity`
    align,       \* argument `align` (page size for page_aligned_vec)
    touch,       \* argument `touch` : None or a value
    x,           \* argument `x` of init_aligned_vec
    page_locked, \* argument `page_locked`
    ps,          \* what page_size::get() returns on this host
    layout,      \* the Layout handed to std::alloc::alloc
    raw_ptr,     \* what std::alloc::alloc returned
    v,           \* the Vec: [ptr, len, cap], len and cap in elements of T
    i,           \* loop variable of the touch loop
    writes,      \* element writes through v, in order: [idx, val]
    allocs,      \* calls of std::alloc::alloc, in order: the layouts
    mlocks       \* calls of mlock, in order: [addr, len]

vars == <<pc, caller, T, size, capacity, align, touch, x, page_locked, ps,
          layout, raw_ptr, v, i, writes, allocs, mlocks>>

args == <<caller, T, size, capacity, align, touch, x, page_locked>>

Max(a, b) == IF a >= b THEN a ELSE b

\* Mutant of VecNew: the empty Vec reserves room for an element.
VecNew_reserving(t) == [ptr |-> t, len |-> 0, cap |-> 1]

\* Vec::<T>::new(): no allocation, dangling pointer (align_of::<T>()).
VecNew(t) == [ptr |-> t, len |-> 0, cap |-> 0]

\* let size = size * size_of::<T>()
SizeBytes(n, t) == n * t

\* let capacity = (capacity * size_of::<T>()).max(size)
CapacityBytes(c, t, sb) == Max(c * t, sb)

\* Mutant of LayoutOf: the requested alignment is dropped from the layout.
LayoutOf_unaligned(sb, al) == [size |-> sb, align |-> 1]

\* Layout::from_size_align_unchecked(size, align)
LayoutOf(sb, al) == [size |-> sb, align |-> al]

\* std::alloc::alloc(layout): null on failure, else a block aligned to
\* layout.align.
Alloc(l) == {NULL} \cup {a \in 1..AddrTop : a % l.align = 0}

\* Vec::from_raw_parts(ptr, length, capacity): length and capacity are
\* counted in elements of T.
FromRawParts(p, length, cap) == [ptr |-> p, len |-> length, cap |-> cap]

Init ==
    /\ pc = "idle"
    /\ caller = "none"
    /\ T = 1
    /\ size = 0
    /\ capacity = 0
    /\ align = 1
    /\ touch = None
    /\ x = None
    /\ page_locked = FALSE
    /\ ps \in PageSizes
    /\ layout = LayoutOf(0, 1)
    /\ raw_ptr = NULL
    /\ v = NoVec
    /\ i = 0
    /\ writes = <<>>
    /\ allocs = <<>>
    /\ mlocks = <<>>

\* Byte size of the request, as the shadowed `size` of lines 34 and 59.
ReqBytes == SizeBytes(size, T)

\* A write of element idx through v leaves the allocated block (or there is
\* no block): undefined behaviour.
OutOfBlock(idx) == raw_ptr = NULL \/ (idx + 1) * T > layout.size

\* Number of whole elements of T the allocated block holds.
BlockElems == IF raw_ptr = NULL THEN 0 ELSE layout.size \div T

\* What v.fill(x) writes: every element of v, in order.
FillWrites(n, val) == [k \in 1..n |-> [idx |-> k - 1, val |-> val]]

\* Where control goes when aligned_vec returns.
AfterAlignedVec == IF caller = "page_aligned_vec" THEN "pv_lock" ELSE "done"

\* ---- calls ----

\* aligned_vec::<T>(size, capacity, align, touch)
CallAlignedVec ==
    /\ pc = "idle"
    /\ \E t \in ElemSizes : \E n \in 0..MaxCount, c \in 0..MaxCapacity,
          al \in ValidAligns(t), tv \in Values \cup {None} :
          /\ T' = t
          /\ size' = n
          /\ capacity' = c
          /\ align' = al
          /\ touch' = tv
    /\ caller' = "aligned_vec"
    /\ pc' = "av_entry"
    /\ UNCHANGED <<x, page_locked, ps, layout, raw_ptr, v, i, writes, allocs, mlocks>>

\* init_aligned_vec::<T>(size, capacity, align, x)
CallInitAlignedVec ==
    /\ pc = "idle"
    /\ \E t \in ElemSizes : \E n \in 0..MaxCount, c \in 0..MaxCapacity,
          al \in ValidAligns(t), xv \in Values :
          /\ T' = t
          /\ size' = n
          /\ capacity' = c
          /\ align' = al
          /\ x' = xv
    /\ caller' = "init_aligned_vec"
    /\ pc' = "iv_entry"
    /\ UNCHANGED <<touch, page_locked, ps, layout, raw_ptr, v, i, writes, allocs, mlocks>>

\* page_aligned_vec::<T>(size, capacity, touch, page_locked): line 80 calls
\* aligned_vec::<T>(size, capacity, page_size::get(), touch).
CallPageAlignedVec ==
    /\ pc = "idle"
    /\ \E t \in ElemSizes, n \in 0..MaxCount, c \in 0..MaxCapacity,
          tv \in Values \cup {None}, lk \in BOOLEAN :
          /\ T' = t
          /\ size' = n
          /\ capacity' = c
          /\ touch' = tv
          /\ page_locked' = lk
    /\ align' = ps
    /\ caller' = "page_aligned_vec"
    /\ pc' = "av_entry"
    /\ UNCHANGED <<x, ps, layout, raw_ptr, v, i, writes, allocs, mlocks>>

\* ---- aligned_vec ----

\* if size == 0 { Vec::<T>::new() }
AvEmpty ==
    /\ pc = "av_entry"
    /\ size = 0
    /\ v' = VecNew(T)
    /\ pc' = AfterAlignedVec
    /\ UNCHANGED <<args, ps, layout, raw_ptr, i, writes, allocs, mlocks>>

\* Lines 34-40 and 47: sizes in bytes, the layout, the allocation (its
\* result is not tested), and the Vec built over the block.
AvAlloc ==
    /\ pc = "av_entry"
    /\ size # 0
    /\ LET sb == SizeBytes(size, T)
           cb == CapacityBytes(capacity, T, sb)
           l  == LayoutOf(sb, align)
       IN /\ layout' = l
          /\ allocs' = Append(allocs, l)
          /\ \E p \in Alloc(l) :
                /\ raw_ptr' = p
                /\ v' = FromRawParts(p, sb, cb)
    /\ i' = 0
    /\ pc' = IF touch # None THEN "av_touch" ELSE AfterAlignedVec
    /\ UNCHANGED <<args, ps, writes, mlocks>>

\* One iteration of `for i in (0..size).step_by(page_size::get()) { v[i] = x }`.
\* v[i] is bounds-checked against v.len; a write outside the block is
\* undefined behaviour: it either clobbers what lies there or faults.
AvTouch ==
    /\ pc = "av_touch"
    /\ i < ReqBytes
    /\ IF i >= v.len
       THEN pc' = "panic" /\ UNCHANGED <<i, writes>>
       ELSE \/ /\ writes' = Append(writes, [idx |-> i, val |-> touch])
               /\ i' = i + ps
               /\ pc' = "av_touch"
            \/ /\ OutOfBlock(i)
               /\ pc' = "segv"
               /\ UNCHANGED <<i, writes>>
    /\ UNCHANGED <<args, ps, layout, raw_ptr, v, allocs, mlocks>>

\* The loop is exhausted: aligned_vec returns v.
AvTouchDone ==
    /\ pc = "av_touch"
    /\ i >= ReqBytes
    /\ pc' = AfterAlignedVec
    /\ UNCHANGED <<args, ps, layout, raw_ptr, v, i, writes, allocs, mlocks>>

\* ---- init_aligned_vec ----

\* if size == 0 { Vec::<T>::new() }
IvEmpty ==
    /\ pc = "iv_entry"
    /\ size = 0
    /\ v' = VecNew(T)
    /\ pc' = "done"
    /\ UNCHANGED <<args, ps, layout, raw_ptr, i, writes, allocs, mlocks>>

\* Lines 59-65.
IvAlloc ==
    /\ pc = "iv_entry"
    /\ size # 0
    /\ LET sb == SizeBytes(size, T)
           cb == CapacityBytes(capacity, T, sb)
           l  == LayoutOf(sb, align)
       IN /\ layout' = l
          /\ allocs' = Append(allocs, l)
          /\ \E p \in Alloc(l) :
                /\ raw_ptr' = p
                /\ v' = FromRawParts(p, sb, cb)
    /\ pc' = "iv_fill"
    /\ UNCHANGED <<args, ps, i, writes, mlocks>>

\* v.fill(x); v -- every element of v is written. Writing past the block is
\* undefined behaviour: the fill either runs to its end or faults where the
\* block ends.
IvFill ==
    /\ pc = "iv_fill"
    /\ \/ /\ writes' = FillWrites(v.len, x)
          /\ pc' = "done"
       \/ /\ \E k \in 0..(v.len - 1) : OutOfBlock(k)
          /\ writes' = FillWrites(BlockElems, x)
          /\ pc' = "segv"
    /\ UNCHANGED <<args, ps, layout, raw_ptr, v, i, allocs, mlocks>>

\* ---- page_aligned_vec ----

\* Lines 81-86: if page_locked { mlock(v.as_ptr(), size).unwrap() }; v.
\* `size` is the argument of page_aligned_vec; mlock may fail, and unwrap
\* then panics.
PvLock ==
    /\ pc = "pv_lock"
    /\ IF page_locked
       THEN /\ mlocks' = Append(mlocks, [addr |-> v.ptr, len |-> size])
            /\ \E ok \in BOOLEAN : pc' = IF ok THEN "done" ELSE "panic"
       ELSE /\ mlocks' = mlocks
            /\ pc' = "done"
    /\ UNCHANGED <<args, ps, layout, raw_ptr, v, i, writes, allocs>>

Next ==
    \/ CallAlignedVec
    \/ CallInitAlignedVec
    \/ CallPageAlignedVec
    \/ AvEmpty
    \/ AvAlloc
    \/ AvTouch
    \/ AvTouchDone
    \/ IvEmpty
    \/ IvAlloc
    \/ IvFill
    \/ PvLock

Spec == Init /\ [][Next]_vars

\* ---- observations used by the properties ----

Uninit == "uninit"

\* Indices of the elements written through v.
WrittenIdx == {writes[k].idx : k \in 1..Len(writes)}

\* Value of element idx of the block after the writes so far.
ElemAt(idx) ==
    IF idx \in WrittenIdx
    THEN writes[CHOOSE k \in 1..Len(writes) :
                    /\ writes[k].idx = idx
                    /\ \A m \in (k + 1)..Len(writes) : writes[m].idx # idx].val
    ELSE Uninit

\* The element of T that holds byte offset b of the block.
ElemAtByte(b) == ElemAt(b \div T)

\* Byte offsets, inside the requested region, at which a page starts.
PageOffsets == {b \in 0..(ReqBytes - 1) : b % ps = 0}

Returned == pc = "done"
Allocated == allocs # <<>> /\ raw_ptr # NULL
AllocFailed == allocs # <<>> /\ raw_ptr = NULL

\* ---- C1 ----
\* C1: for count > 0 the returned buffer has len = count and
\* capacity = max(capacity, count), in elements, for every element size.
C1_LenCapInElements ==
    (Returned /\ size > 0 /\ Allocated) =>
        /\ v.len = size
        /\ v.cap = Max(capacity, size)

\* ---- C2 ----
\* C2: for count > 0 the block is requested with the caller's alignment and the
\* buffer's base address is a multiple of it; for page_aligned_vec that
\* alignment is the page size, so the base address is a multiple of the
\* page size.
C2_BaseAligned ==
    allocs # <<>> =>
        /\ allocs = <<LayoutOf(ReqBytes, align)>>
        /\ allocs[1].align = align
        /\ v.ptr = raw_ptr
        /\ v.ptr % align = 0
        /\ caller = "page_aligned_vec" => (allocs[1].align = ps /\ v.ptr % ps = 0)

C2_Witness ==
    /\ Returned
    /\ caller = "page_aligned_vec"
    /\ size > 0
    /\ Allocated
    /\ ps = 4
    /\ v.ptr = 8

\* ---- C3 ----
\* C3: with count = 0 a constructor allocates nothing, writes nothing, and
\* the buffer it returns has len 0 and capacity 0, whatever align, capacity
\* and touch or fill value were passed.
C3_EmptyNoAlloc ==
    (pc # "idle" /\ size = 0) =>
        /\ allocs = <<>>
        /\ writes = <<>>
        /\ Returned => (v.len = 0 /\ v.cap = 0)

C3_Witness ==
    /\ Returned
    /\ size = 0
    /\ caller = "page_aligned_vec"
    /\ capacity > 0
    /\ touch # None
    /\ allocs = <<>>

\* ---- C4 ----
\* C4: init_aligned_vec with count > 0 leaves every element in [0, count)
\* equal to the fill value, and the fill covers exactly those elements.
C4_FillExactlyCount ==
    (Returned /\ caller = "init_aligned_vec" /\ size > 0 /\ Allocated) =>
        /\ \A k \in 0..(size - 1) : ElemAt(k) = x
        /\ WrittenIdx = 0..(size - 1)

\* ---- C5 ----
\* C5: with touch = Some(x) and a region of several pages, the element at
\* byte offset 0 and at every later page-boundary byte offset below
\* count * sizeof(element) equals x, one element being written per page.
C5_TouchPerPage ==
    (/\ Returned
     /\ caller \in {"aligned_vec", "page_aligned_vec"}
     /\ touch # None
     /\ Allocated
     /\ ReqBytes > ps) =>
        /\ \A b \in PageOffsets : ElemAtByte(b) = touch
        /\ Cardinality(WrittenIdx) = Cardinality(PageOffsets)

\* ---- C6 ----
\* C6: page_aligned_vec with lock = true and count > 0 calls mlock exactly
\* once, with the buffer's base address and count * sizeof(element) bytes.
C6_MlockByteLen ==
    (/\ pc \in {"done", "panic"}
     /\ caller = "page_aligned_vec"
     /\ page_locked
     /\ size > 0
     /\ Allocated) =>
        mlocks = <<[addr |-> v.ptr, len |-> size * T]>>

\* ---- C7 ----
\* C7: when the allocator returns no block, no buffer is returned to the
\* caller and no touch or fill write is performed.
C7_AllocFailureFatal ==
    AllocFailed => (pc # "done" /\ writes = <<>>)

\* ---- C8 ----
\* C8: page_aligned_vec with count = 0 never calls mlock, whatever the lock
\* flag.
C8_EmptyNoMlock ==
    (caller = "page_aligned_vec" /\ size = 0) => mlocks = <<>>

\* ---- C9 ----
\* C9: the block requested from the allocator holds the reported capacity:
\* capacity * sizeof(element) is at most the bytes requested.
C9_CapacityBacked ==
    (Returned /\ size > 0 /\ Allocated) => v.cap * T <= layout.size

\* ---- C10 ----
\* C10: every write made during construction lies inside the allocated
\* block.
C10_WritesInBlock ==
    Allocated => \A k \in 1..Len(writes) : ~OutOfBlock(writes[k].idx)
====
